---- MODULE Spec2Model ----
(***************************************************************************)
(* Shooting-method eigenvalue search of the two programs of the            *)
(* repository, reference/harmonic1.c (Numerov integration outward and      *)
(* inward, matching at the classical turning point) and                    *)
(* reference/harmonic0.c (outward integration only), as a state machine    *)
(* over the variables of main() and its position.  A definition whose name *)
(* ends in 0 is of harmonic0.c; the others are of harmonic1.c, or of the   *)
(* lines the two programs share.                                           *)
(*                                                                         *)
(* Numbers.  The program's doubles are held in a binary floating-point     *)
(* format with MantBits mantissa bits: Fl rounds to nearest, ties to even. *)
(* Lengths are counted in a unit L and energies in the unit L*L/2, so that *)
(* 0.5*x*x is the number x*x; TOL is the program's 1e-10 in that unit.     *)
(* The values of the wavefunction are not computed: the number of          *)
(* crossings counted by the outward integration and the sign of            *)
(* djump*y[icl] are any outcome the loops can produce, but the same        *)
(* outcome whenever the same energy is integrated again in a search        *)
(* (variable seen), as the integration is a function of e, nodes and the   *)
(* grid.                                                                   *)
(***************************************************************************)
EXTENDS Integers, Sequences, FiniteSets, TLC

\* ---- bounds of the model ----
MaxSearches == 2      \* searches (nodes >= 0 requests) read in one session
MaxCross == 1         \* crossings the outward integration may count
MantBits == 4         \* mantissa bits of the floating-point format
MaxPasses0 == 8       \* passes followed in one search of harmonic0.c

\* ---- program constants ----
TOL == 256            \* 1.e-10 of the loop header, in energy units
BisectIterate == 1000 \* iterate = 1000
FixedIterate == 1     \* iterate = 1

\* ---- inputs ----
\* Grids whose xmax is a multiple of mesh, so that dx = xmax / mesh is exact.
\* With TOL = 256 the unit L is about 8.8e-7: xmax = 16 is the widest grid
\* whose bracket max(vpot) - min(vpot) does not exceed the tolerance.
Grids ==
  { [mesh |-> 1,  xmax |-> 32],
    [mesh |-> 4,  xmax |-> 32],
    [mesh |-> 16, xmax |-> 0],
    [mesh |-> 16, xmax |-> 16],
    [mesh |-> 16, xmax |-> 32],
    [mesh |-> 16, xmax |-> 96],
    [mesh |-> 20, xmax |-> 20] }
NodesSet == {-1, 0, 1, 2}
TrialSet == {0, -1, 64}

Indeterminate == "indeterminate"

Programs == {"harmonic0", "harmonic1"}

VARIABLES
  prog,     \* the program that runs
  pc,       \* position in main()
  status,   \* exit status of the process, -1 while it runs
  diag,     \* diagnostic written to stderr by a fatal exit
  xmax, mesh, dx, vpot,
  search,   \* number of search requests read so far (nodes >= 0)
  nodes, trial, e, elw, eup, iterate, kkk,
  icl, hnodes, ncross,
  asgn,     \* for icl, hnodes, f, y: the search that last assigned it, 0 = never
  inward,   \* y holds the matched, normalised solution of the last pass
  seen,     \* outcomes of the integrations of this search that can recur
  npass,    \* passes begun in the current search
  nint,     \* passes of the current search that ran the integration
  tables    \* tables written to the output file

vars == <<prog, pc, status, diag, xmax, mesh, dx, vpot, search, nodes, trial, e, elw,
          eup, iterate, kkk, icl, hnodes, ncross, asgn, inward, seen, npass,
          nint, tables>>

\* ---- floating point ----
Abs(v) == IF v < 0 THEN 0 - v ELSE v

RECURSIVE Ulp(_)
Ulp(a) == IF a < 2^MantBits THEN 1 ELSE 2 * Ulp(a \div 2)

\* the multiple of u nearest to a >= 0, ties to the even multiple
NearestEven(a, u) ==
  LET q == a \div u
      r == a % u
  IN  IF 2 * r < u THEN q * u
      ELSE IF 2 * r > u THEN (q + 1) * u
      ELSE IF q % 2 = 0 THEN q * u ELSE (q + 1) * u

Fl(v) ==
  LET a == Abs(v)
      m == NearestEven(a, Ulp(a))
  IN  IF v < 0 THEN 0 - m ELSE m

\* 0.5 * s: exact, but for an odd s at the bottom of the format (underflow)
Half(s) ==
  LET a == Abs(s)
      h == IF a % 2 = 0 THEN a \div 2
           ELSE IF (a \div 2) % 2 = 0 THEN a \div 2 ELSE (a \div 2) + 1
  IN  IF s < 0 THEN 0 - h ELSE h

\* 0.5 * (eup + elw)
Midpoint(lw, up) == Half(Fl(up + lw))

\* eup-elw > 1.e-10
BracketOpen(lw, up) == Fl(up - lw) > TOL

SetMax(S) == CHOOSE a \in S : \A b \in S : b <= a
SetMin(S) == CHOOSE a \in S : \A b \in S : a <= b

\* ---- grid and potential ----
GridX(d, i) == Fl(i * d)
Potential(d, m) == [i \in 0..m |-> Fl(GridX(d, i) * GridX(d, i))]

\* ---- bracket ----
BracketLow(v, m) == SetMin({v[i] : i \in 0..m} \cup {v[m]})
BracketHigh(v, m) == SetMax({v[i] : i \in 0..m} \cup {v[m]})

TrialEnergy(t, lw, up) == IF t = 0 THEN Midpoint(lw, up) ELSE t
Budget(t) == IF t = 0 THEN BisectIterate ELSE FixedIterate

LoopCond == kkk <= iterate /\ BracketOpen(elw, eup)

\* ---- turning point ----
\* 6*f[i] before the transformation f := 1 - f
RawF(v, d, en, i) == d * d * Fl(v[i] - en)
\* the sign f[i] carries into copysign: f[0] has the sign of vpot[0] - e (a
\* zero difference is +0.0), an exact zero at i >= 1 is replaced by 1e-20
Positive(v, d, en, i) ==
  IF i = 0 THEN Fl(v[0] - en) >= 0 ELSE RawF(v, d, en, i) >= 0

LastCrossing(v, d, en, m) ==
  LET S == {i \in 1..m : Positive(v, d, en, i) # Positive(v, d, en, i - 1)}
  IN  IF S = {} THEN -1 ELSE SetMax(S)

\* the too-far check taken one index late
TooFarLate(i, m) == i > m - 2
TooFar(i, m) == i >= m - 2
NoTurningPoint(i) == i < 1

\* ---- outward integration: node count ----
Even(n) == 2 * (n \div 2) = n
\* ncross after the parity correction, from the crossings c counted on x > 0
NodeCount(c, n) == IF Even(n) THEN 2 * c ELSE 2 * c + 1

\* The loop i = 1..icl-1 can count between 0 and icl-1 crossings; djump*y[icl]
\* is computed only when the inward integration runs in bisection mode.
Outcomes(i, n, it) ==
  UNION { { [c |-> c, dj |-> d] :
              d \in IF it > 1 /\ NodeCount(c, n) = n THEN BOOLEAN ELSE {FALSE} } :
          c \in 0..(IF i - 1 < MaxCross THEN i - 1 ELSE MaxCross) }

\* the integration is a function of the energy: an energy integrated before in
\* this search gives what it gave
OutcomesAt(en, i, n, it, known) ==
  LET old == {k \in known : k.e = en}
  IN  IF old # {} THEN {[c |-> k.c, dj |-> k.dj] : k \in old}
      ELSE Outcomes(i, n, it)

\* ---- bracket updates; b = [lw, up, e] ----
\* "Check number of crossings"
NodeCheck(b, nc, n, it) ==
  IF it > 1 /\ nc # n
    THEN LET up == IF nc > n THEN b.e ELSE b.up
             lw == IF nc > n THEN b.lw ELSE b.e
         IN  [lw |-> lw, up |-> up, e |-> Midpoint(lw, up)]
    ELSE b

Matches(nc, n, it) == it = 1 \/ nc = n

\* the discontinuity of the first derivative decides, djpos = (djump*y[icl] > 0.)
DjumpUpdate(b, djpos, it) ==
  IF it > 1
    THEN LET up == IF djpos THEN b.e ELSE b.up
             lw == IF djpos THEN b.lw ELSE b.e
         IN  [lw |-> lw, up |-> up, e |-> Midpoint(lw, up)]
    ELSE b

PassResult(b, nc, djpos, n, it) ==
  LET b1 == NodeCheck(b, nc, n, it)
  IN  IF Matches(nc, n, it) THEN DjumpUpdate(b1, djpos, it) ELSE b1

\* ---- harmonic0.c: crossings against hnodes, no matching ----
Budget0(t) == IF t = 0 THEN 1 ELSE 0

\* the loop i = 1..mesh-1 can count between 0 and mesh-1 crossings
Outcomes0(m) ==
  { [c |-> c, dj |-> FALSE] : c \in 0..(IF m - 1 < MaxCross THEN m - 1 ELSE MaxCross) }

OutcomesAt0(en, m, known) ==
  LET old == {k \in known : k.e = en}
  IN  IF old # {} THEN {[c |-> k.c, dj |-> k.dj] : k \in old}
      ELSE Outcomes0(m)

\* "Check number of crossings"
PassResult0(b, nc, hn, it) ==
  IF it # 0
    THEN LET up == IF nc > hn THEN b.e ELSE b.up
             lw == IF nc > hn THEN b.lw ELSE b.e
         IN  [lw |-> lw, up |-> up, e |-> Midpoint(lw, up)]
    ELSE b

\* "Convergence criterion": goto L1
Again0(b, it) == it # 0 /\ BracketOpen(b.lw, b.up)

\* ---- the programs ----
Init ==
  /\ prog \in Programs
  /\ pc = "start"
  /\ status = -1
  /\ diag = "none"
  /\ xmax = 0 /\ mesh = 0 /\ dx = 0 /\ vpot = << >>
  /\ search = 0
  /\ nodes = 0 /\ trial = 0 /\ e = 0 /\ elw = 0 /\ eup = 0
  /\ iterate = 0 /\ kkk = 0
  /\ icl = Indeterminate /\ hnodes = Indeterminate /\ ncross = Indeterminate
  /\ asgn = [v \in {"icl", "hnodes", "f", "y"} |-> 0]
  /\ inward = FALSE
  /\ seen = {}
  /\ npass = 0 /\ nint = 0 /\ tables = 0

\* read xmax and mesh, allocate, set up grid and potential, open the output
ReadGrid ==
  /\ pc = "start"
  /\ \E g \in Grids :
       /\ xmax' = g.xmax
       /\ mesh' = g.mesh
       /\ dx' = Fl(g.xmax \div g.mesh)
       /\ vpot' = Potential(Fl(g.xmax \div g.mesh), g.mesh)
  /\ pc' = "L999"
  /\ UNCHANGED <<prog, status, diag, search, nodes, trial, e, elw, eup, iterate,
                 kkk, icl, hnodes, ncross, asgn, inward, seen, npass, nint,
                 tables>>

Setup == prog = "harmonic1" /\ ReadGrid
Setup0 == prog = "harmonic0" /\ ReadGrid

\* L999, nodes < 0: free, close, exit(0)
ReadSentinel ==
  /\ pc = "L999"
  /\ \E n \in NodesSet :
       /\ n < 0
       /\ nodes' = n
  /\ pc' = "exit"
  /\ status' = 0
  /\ UNCHANGED <<prog, diag, xmax, mesh, dx, vpot, search, trial, e, elw, eup,
                 iterate, kkk, icl, hnodes, ncross, asgn, inward, seen, npass,
                 nint, tables>>

Sentinel == prog = "harmonic1" /\ ReadSentinel
Sentinel0 == prog = "harmonic0" /\ ReadSentinel

\* L999, nodes >= 0: bracket, trial energy, kkk = 0
ReadSearch ==
  /\ pc = "L999"
  /\ search < MaxSearches
  /\ \E n \in NodesSet, t \in TrialSet :
       /\ n >= 0
       /\ nodes' = n
       /\ trial' = t
       /\ elw' = BracketLow(vpot, mesh)
       /\ eup' = BracketHigh(vpot, mesh)
       /\ e' = TrialEnergy(t, BracketLow(vpot, mesh), BracketHigh(vpot, mesh))
  /\ kkk' = 0
  /\ search' = search + 1
  /\ seen' = {}
  /\ npass' = 0
  /\ nint' = 0
  /\ UNCHANGED <<prog, status, diag, xmax, mesh, dx, vpot, icl, hnodes, ncross,
                 asgn, inward, tables>>

NewSearch ==
  /\ prog = "harmonic1"
  /\ ReadSearch
  /\ iterate' = Budget(trial')
  /\ pc' = "loop"

NewSearch0 ==
  /\ prog = "harmonic0"
  /\ ReadSearch
  /\ iterate' = Budget0(trial')
  /\ pc' = "L1"

\* the loop header fails: fall through to L2
LoopExit ==
  /\ prog = "harmonic1"
  /\ pc = "loop"
  /\ ~LoopCond
  /\ pc' = "L2"
  /\ UNCHANGED <<prog, status, diag, xmax, mesh, dx, vpot, search, nodes, trial,
                 e, elw, eup, iterate, kkk, icl, hnodes, ncross, asgn, inward,
                 seen, npass, nint, tables>>

\* the beginning of a pass: f and icl
ScanF ==
  /\ icl' = LastCrossing(vpot, dx, e, mesh)
  /\ asgn' = [asgn EXCEPT !["icl"] = search, !["f"] = search]
  /\ npass' = npass + 1
  /\ UNCHANGED <<prog, xmax, mesh, dx, vpot, search, nodes, trial, e, elw, eup,
                 iterate, hnodes, ncross, inward, seen, nint, tables>>

Scan ==
  /\ prog = "harmonic1"
  /\ pc = "loop"
  /\ LoopCond
  /\ ScanF
  /\ UNCHANGED kkk

\* L1: ++kkk
Scan0 ==
  /\ prog = "harmonic0"
  /\ pc = "L1"
  /\ npass < MaxPasses0
  /\ ScanF
  /\ kkk' = kkk + 1

\* "last change of sign too far.", exit(1)
ExitTooFar ==
  /\ TooFar(icl', mesh)
  /\ pc' = "exit"
  /\ status' = 1
  /\ diag' = "too_far"

\* "no classical turning point?", exit(1)
ExitNoTurningPoint ==
  /\ ~TooFar(icl', mesh)
  /\ NoTurningPoint(icl')
  /\ pc' = "exit"
  /\ status' = 1
  /\ diag' = "no_turning_point"

\* the turning point passes both checks
Accept ==
  /\ ~TooFar(icl', mesh)
  /\ ~NoTurningPoint(icl')
  /\ pc' = "integrate"
  /\ UNCHANGED <<status, diag>>

FatalTooFar == Scan /\ ExitTooFar
FatalNoTurningPoint == Scan /\ ExitNoTurningPoint
Locate == Scan /\ Accept

FatalTooFar0 == Scan0 /\ ExitTooFar
FatalNoTurningPoint0 == Scan0 /\ ExitNoTurningPoint
Locate0 == Scan0 /\ Accept

\* f := 1 - f, y := 0, outward integration, node check, inward integration,
\* matching, normalisation, djump, ++kkk
Integrate ==
  /\ prog = "harmonic1"
  /\ pc = "integrate"
  /\ \E o \in OutcomesAt(e, icl, nodes, iterate, seen) :
       LET nc == NodeCount(o.c, nodes)
           b  == PassResult([lw |-> elw, up |-> eup, e |-> e], nc, o.dj,
                            nodes, iterate)
       IN  /\ hnodes' = nodes \div 2
           /\ ncross' = nc
           /\ inward' = Matches(nc, nodes, iterate)
           /\ elw' = b.lw
           /\ eup' = b.up
           /\ e' = b.e
           /\ seen' = {k \in seen \cup {[e |-> e, c |-> o.c, dj |-> o.dj]} :
                         k.e \in {b.lw, b.up, b.e}}
  /\ asgn' = [asgn EXCEPT !["hnodes"] = search, !["f"] = search,
                          !["y"] = search]
  /\ kkk' = kkk + 1
  /\ nint' = nint + 1
  /\ pc' = "loop"
  /\ UNCHANGED <<prog, status, diag, xmax, mesh, dx, vpot, search, nodes, trial,
                 iterate, icl, npass, tables>>

\* f := 1 - f, y := 0, outward integration to mesh, node check, goto L1 or on
Integrate0 ==
  /\ prog = "harmonic0"
  /\ pc = "integrate"
  /\ \E o \in OutcomesAt0(e, mesh, seen) :
       LET b == PassResult0([lw |-> elw, up |-> eup, e |-> e], o.c,
                            nodes \div 2, iterate)
       IN  /\ hnodes' = nodes \div 2
           /\ ncross' = o.c
           /\ elw' = b.lw
           /\ eup' = b.up
           /\ e' = b.e
           /\ seen' = {k \in seen \cup {[e |-> e, c |-> o.c, dj |-> o.dj]} :
                         k.e \in {b.lw, b.up, b.e}}
           /\ pc' = IF Again0(b, iterate) THEN "L1" ELSE "L2"
  /\ asgn' = [asgn EXCEPT !["hnodes"] = search, !["f"] = search,
                          !["y"] = search]
  /\ nint' = nint + 1
  /\ UNCHANGED <<prog, status, diag, xmax, mesh, dx, vpot, search, nodes, trial,
                 iterate, kkk, icl, inward, npass, tables>>

\* classical density, table, goto L999
WriteTable ==
  /\ pc = "L2"
  /\ tables' = tables + 1
  /\ pc' = "L999"
  /\ UNCHANGED <<prog, status, diag, xmax, mesh, dx, vpot, search, nodes, trial,
                 e, elw, eup, iterate, kkk, icl, hnodes, ncross, asgn, inward,
                 seen, npass, nint>>

Emit == prog = "harmonic1" /\ WriteTable
Emit0 == prog = "harmonic0" /\ WriteTable

\* L2 with icl never assigned: the loops over p[] run on an indeterminate
\* index, and the process may as well be killed by a signal
EmitFault ==
  /\ prog = "harmonic1"
  /\ pc = "L2"
  /\ asgn["icl"] = 0
  /\ pc' = "exit"
  /\ status' = 139
  /\ UNCHANGED <<prog, diag, xmax, mesh, dx, vpot, search, nodes, trial, e, elw,
                 eup, iterate, kkk, icl, hnodes, ncross, asgn, inward, seen,
                 npass, nint, tables>>

Next ==
  \/ Setup
  \/ Sentinel
  \/ NewSearch
  \/ LoopExit
  \/ FatalTooFar
  \/ FatalNoTurningPoint
  \/ Locate
  \/ Integrate
  \/ Emit
  \/ EmitFault
  \/ Setup0
  \/ Sentinel0
  \/ NewSearch0
  \/ FatalTooFar0
  \/ FatalNoTurningPoint0
  \/ Locate0
  \/ Integrate0
  \/ Emit0

Spec == Init /\ [][Next]_vars

ValidGrid == mesh >= 1 /\ xmax > 0
Bisecting == iterate = BisectIterate
Width == eup - elw

\* ---- claims ----

\* C1: in harmonic1.c, when a bisection search leaves the loop because the bracket has closed,
\* the node count of the last executed pass equals the requested nodes.
C1_NodeCountAtConvergence ==
  (prog = "harmonic1" /\ pc = "L2" /\ Bisecting /\ npass >= 1
     /\ ~BracketOpen(elw, eup))
    => ncross = nodes

\* C2: in harmonic1.c on a valid grid, between bracket initialisation and emission, elw < eup
\* holds, no step widens the bracket, and every pass in bisection mode
\* narrows it.
C2_BracketNarrows ==
  [][ (prog = "harmonic1" /\ ValidGrid /\ pc' \in {"loop", "integrate", "L2"})
        => /\ elw' < eup'
           /\ (pc \in {"loop", "integrate"} => eup' - elw' <= Width)
           /\ (pc = "integrate" /\ Bisecting => eup' - elw' < Width) ]_vars

\* C3: no search of harmonic1.c begins more than 1000 evaluation passes.
C3_PassBudget == prog = "harmonic1" => npass <= BisectIterate

\* C4: a search at a fixed trial energy that reaches emission has run exactly
\* one pass, and e, elw, eup are as they were after the trial energy was read.
C4_FixedEnergySinglePass ==
  (pc = "L2" /\ trial # 0 /\ npass >= 1)
    => /\ npass = 1
       /\ nint = 1
       /\ e = trial
       /\ elw = BracketLow(vpot, mesh)
       /\ eup = BracketHigh(vpot, mesh)

\* C6: on a valid grid a scan without a sign change (icl < 1) ends in the
\* no-turning-point failure, and the too-far failure is raised only for a sign
\* change found at icl >= mesh-2.
C6_TurningPointDiagnostics ==
  ValidGrid =>
    /\ (asgn["icl"] # 0 /\ icl < 1) =>
         (pc = "exit" /\ diag = "no_turning_point")
    /\ diag = "too_far" => (icl >= 1 /\ icl >= mesh - 2)

\* C7: a pass whose turning point fails either check ends the process with
\* status 1: the integration never runs on such a turning point, the failing
\* search writes no table, and no step (no read of a later request) follows.
C7_FatalEndsSession ==
  /\ pc = "integrate" => (icl >= 1 /\ icl < mesh - 2)
  /\ (asgn["icl"] = search /\ search >= 1 /\ (icl < 1 \/ icl >= mesh - 2)) =>
       /\ pc = "exit"
       /\ status = 1
       /\ diag # "none"
       /\ tables = search - 1
       /\ nint = npass - 1
       /\ ~ENABLED Next

C7_Witness ==
  /\ pc = "exit" /\ status = 1 /\ diag = "too_far"
  /\ search = 2 /\ tables = 1 /\ npass = 2 /\ nint = 1

\* C8: with mesh < 1 or xmax <= 0 the session is rejected: no search request
\* is read and no pass is executed.
C8_InvalidGridRejected ==
  (pc # "start" /\ (mesh < 1 \/ xmax <= 0)) => (search = 0 /\ npass = 0)

\* C9: the table of a search is built from that search alone: at emission
\* icl, hnodes, f and y were all assigned by the current search, and every
\* search enters its loop with a fresh bracket and pass counter.
C9_NoCarryOver ==
  /\ pc = "L2" => \A v \in DOMAIN asgn : asgn[v] = search
  /\ (pc \in {"loop", "L1"} /\ npass = 0) =>
       /\ kkk = 0
       /\ elw = BracketLow(vpot, mesh)
       /\ eup = BracketHigh(vpot, mesh)

\* C10: in harmonic1.c on a valid grid, emission is reached only after at least one pass of
\* the loop has completed in the same search.
C10_PassBeforeEmission ==
  (prog = "harmonic1" /\ pc = "L2" /\ ValidGrid) => (kkk >= 1 /\ nint >= 1)
====
